---------------------------- MODULE Spec2Model ----------------------------
(***************************************************************************)
(* Model of pogiess/tel_bot.                                               *)
(*                                                                         *)
(* The repository holds two programs:                                      *)
(*   - telbot.py: TelegramCryptoBot, an asyncio bot with a scheduler task, *)
(*     command handlers and the scored multi-signal strategy;              *)
(*   - main.py (+ config, data_fetcher, signal_generator, telegram_bot):   *)
(*     an hourly job running the EMA/MACD/RSI crossover strategy.          *)
(*                                                                         *)
(* Three specifications are given over one set of variables:               *)
(*   Spec        the telbot.py process (startup, scheduler, cycles,        *)
(*               command handlers); LiveSpec adds the timers' fairness;    *)
(*   SpecJob     main.job over config.SYMBOLS with generate_signal;        *)
(*   SpecSignals analyze_signals applied to bounded indicator inputs.      *)
(***************************************************************************)
EXTENDS Integers, Sequences, FiniteSets, TLC

VARIABLES
    \* ---- telbot.py process ----
    token_cfg,     \* main(): what BOT_TOKEN holds
    channel_cfg,   \* main(): what CHANNEL_ID holds
    main_pc,       \* position of main()/run_bot()
    bot_test,      \* result of test_bot_connection ("unknown" before it ran)
    chan_test,     \* result of test_channel_access
    handlers,      \* setup_handlers() has registered the command handlers
    polling,       \* updater.start_polling() has succeeded
    watchlist,     \* self.watchlist (a Python list)
    sched_pc,      \* position of the schedule_broadcasts task
    cyc,           \* per runner: the running analyze_and_broadcast coroutine
    handler_pc,    \* the update-processing task: "idle" or inside /broadcast
    last,          \* last command invocation: command, failure met, last reply
    ncmds,         \* commands received so far (bounded)
    nfail,         \* failures injected so far (bounded)
    \* ---- main.py job ----
    job_pc,
    job_idx,
    job_fetched,
    job_sent,
    df,
    signal,
    \* ---- analyze_signals ----
    ind,
    volumes,
    result,
    \* ---- analyze_cryptocurrency: what the fetched price series determines ----
    prices

botvars == <<token_cfg, channel_cfg, main_pc, bot_test, chan_test, handlers,
             polling, watchlist, sched_pc, cyc, handler_pc, last, ncmds, nfail>>
jobvars == <<job_pc, job_idx, job_fetched, job_sent, df, signal>>
sigvars == <<ind, volumes, result, prices>>
vars == <<botvars, jobvars, sigvars>>

-----------------------------------------------------------------------------
(* Bounds of the model *)

\* commands the bot receives in one behaviour
MaxCommands == 2
\* failures (fetch, short series, format, delivery, escaping exception) in one behaviour
MaxFailures == 1

-----------------------------------------------------------------------------
(* telbot.py: configuration and start-up *)

\* TelegramCryptoBot.__init__: the initial watchlist
InitialWatchlist == <<"BTC", "ETH", "ADA", "SOL", "DOGE", "MATIC", "DOT", "LINK">>

\* arguments users type after /analyze, /add, /remove ("" is a missing argument)
CmdArgs == {"", "btc"}

\* str.upper() on the arguments of CmdArgs
Upper(s) == IF s = "btc" THEN "BTC" ELSE s

\* calculate_technical_indicators: minimum series length
MinSamples == 20

\* lengths of the price series a fetch may return
SeriesLens == {MinSamples - 1, MinSamples}

TokenCfgs == {"placeholder", "invalid", "valid"}
ChannelCfgs == {"placeholder", "inaccessible", "ok"}

\* main(): the two placeholder checks
ConfigReplaced(tok, chan) == tok # "placeholder" /\ chan # "placeholder"

\* test_bot_connection: get_me() succeeds only with a valid token, and may
\* still fail (network); every exception is caught and gives False
BotTestOutcomes(tok) == IF tok = "valid" THEN {TRUE, FALSE} ELSE {FALSE}

\* test_channel_access: get_chat() needs a valid token and an accessible channel
ChannelTestOutcomes(tok, chan) ==
    IF tok = "valid" /\ chan = "ok" THEN {TRUE, FALSE} ELSE {FALSE}

\* run_bot after test_bot_connection: "if not ...: return"
\* (AfterBotTest_NoReturn: the faulty variant without the return)
AfterBotTest_NoReturn(ok) == "test_channel"
AfterBotTest(ok) == IF ok THEN "test_channel" ELSE "returned"

\* run_bot after test_channel_access: "if not ...: return"
AfterChannelTest(ok) == IF ok THEN "initialize" ELSE "returned"

Alive == main_pc \notin {"returned", "exited"}

\* the variables of the other two programs
OtherPrograms == UNCHANGED <<jobvars, sigvars>>

\* what only main() and run_bot() write
UnchangedStartup ==
    /\ UNCHANGED <<token_cfg, channel_cfg, main_pc, bot_test, chan_test, handlers, polling>>
    /\ OtherPrograms


-----------------------------------------------------------------------------
(* telbot.py: one run of analyze_and_broadcast *)

Runners == {"sched", "manual"}

IdleCycle == [pc |-> "idle", idx |-> 0, sym |-> "", evaluated |-> <<>>,
              attempts |-> <<>>, snapshot |-> <<>>, failed |-> FALSE]

\* "for symbol in self.watchlist": the list iterator keeps an index into the
\* live list; each step reads the list as it is at that moment
LoopHead(c, wl) ==
    IF c.idx < Len(wl)
    THEN [c EXCEPT !.pc = "analyzing", !.idx = c.idx + 1, !.sym = wl[c.idx + 1],
                   !.evaluated = Append(c.evaluated, wl[c.idx + 1])]
    ELSE [c EXCEPT !.pc = "done", !.sym = ""]

\* analyze_and_broadcast entered: the first iteration runs up to its first await
StartCycle(wl) == LoopHead([IdleCycle EXCEPT !.snapshot = wl], wl)

\* calculate_technical_indicators: {} for a series shorter than 20
CalculateTechnicalIndicators(n) == IF n < MinSamples THEN "empty" ELSE "indicators"

\* analyze_cryptocurrency: None when the fetch failed, when the indicators are
\* empty, or when anything raised; otherwise the analysis
AnalyzeCryptocurrency(fetched, n, raises) ==
    IF ~fetched THEN "None"
    ELSE IF CalculateTechnicalIndicators(n) = "empty" THEN "None"
    ELSE IF raises THEN "None"
    ELSE "analysis"

\* schedule_broadcasts: what follows a cycle
\* (NextAfterCycle_Break: the faulty variant whose except branch leaves the loop)
NextAfterCycle_Break(raised) == IF raised THEN "stopped" ELSE "wait4h"
NextAfterCycle(raised) == IF raised THEN "wait30m" ELSE "wait4h"

\* a failure may be injected while the budget lasts
Budget(isFailure) ==
    /\ isFailure => nfail < MaxFailures
    /\ nfail' = IF isFailure THEN nfail + 1 ELSE nfail

\* the runner's coroutine moves to c2; the scheduler task goes on to its
\* sleep in the same step when its cycle returns (no await in between)
SetCycle(r, c2) ==
    /\ cyc' = [cyc EXCEPT ![r] = c2]
    /\ sched_pc' = IF r = "sched" /\ c2.pc = "done"
                   THEN NextAfterCycle(FALSE) ELSE sched_pc

\* "analysis = await self.analyze_cryptocurrency(symbol)" returns; on None the
\* loop logs and goes straight to the next symbol; otherwise the message is
\* formatted (a raise there is caught by the per-symbol except) and
\* send_channel_update is entered: one delivery attempt
AnalysisDone(r) ==
    /\ Alive
    /\ cyc[r].pc = "analyzing"
    /\ \E fetched \in BOOLEAN, n \in SeriesLens, raises \in BOOLEAN, fmtRaises \in BOOLEAN :
         LET a == AnalyzeCryptocurrency(fetched, n, raises)
             c == cyc[r]
         IN  /\ Budget(a = "None" \/ fmtRaises)
             /\ IF a = "None" \/ fmtRaises
                THEN SetCycle(r, LoopHead(c, watchlist))
                ELSE SetCycle(r, [c EXCEPT !.pc = "sending",
                                           !.attempts = Append(c.attempts, c.sym)])
    /\ UnchangedStartup
    /\ UNCHANGED <<watchlist, handler_pc, last, ncmds>>

\* send_channel_update returns True or (exception caught) False; either way
\* the loop logs and sleeps 2 seconds
SendDone(r) ==
    /\ Alive
    /\ cyc[r].pc = "sending"
    /\ \E ok \in BOOLEAN :
         /\ Budget(~ok)
         /\ SetCycle(r, [cyc[r] EXCEPT !.pc = "sleeping",
                                       !.failed = cyc[r].failed \/ ~ok])
    /\ UnchangedStartup
    /\ UNCHANGED <<watchlist, handler_pc, last, ncmds>>

\* "await asyncio.sleep(2)" returns: next iteration of the for loop
SleepDone(r) ==
    /\ Alive
    /\ cyc[r].pc = "sleeping"
    /\ SetCycle(r, LoopHead(cyc[r], watchlist))
    /\ UnchangedStartup
    /\ UNCHANGED <<watchlist, handler_pc, last, ncmds, nfail>>

-----------------------------------------------------------------------------
(* telbot.py: schedule_broadcasts *)

\* the task starts a cycle
SchedStart ==
    LET c2 == StartCycle(watchlist)
    IN  /\ cyc' = [cyc EXCEPT !["sched"] = c2]
        /\ sched_pc' = IF c2.pc = "done" THEN NextAfterCycle(FALSE) ELSE "running"

\* "await asyncio.sleep(60)" returns
SchedInitialWaitDone ==
    /\ Alive
    /\ sched_pc = "initial_wait"
    /\ SchedStart
    /\ UnchangedStartup
    /\ UNCHANGED <<watchlist, handler_pc, last, ncmds, nfail>>

\* "await asyncio.sleep(14400)" returns
SchedWait4hDone ==
    /\ Alive
    /\ sched_pc = "wait4h"
    /\ SchedStart
    /\ UnchangedStartup
    /\ UNCHANGED <<watchlist, handler_pc, last, ncmds, nfail>>

\* "await asyncio.sleep(1800)" returns
SchedWait30mDone ==
    /\ Alive
    /\ sched_pc = "wait30m"
    /\ SchedStart
    /\ UnchangedStartup
    /\ UNCHANGED <<watchlist, handler_pc, last, ncmds, nfail>>

\* an exception escapes analyze_and_broadcast at one of its awaits and is
\* caught by "except Exception" of schedule_broadcasts
SchedCycleRaises ==
    /\ Alive
    /\ sched_pc = "running"
    /\ cyc["sched"].pc \in {"analyzing", "sending", "sleeping"}
    /\ Budget(TRUE)
    /\ cyc' = [cyc EXCEPT !["sched"].pc = "raised", !["sched"].sym = ""]
    /\ sched_pc' = NextAfterCycle(TRUE)
    /\ UnchangedStartup
    /\ UNCHANGED <<watchlist, handler_pc, last, ncmds>>

-----------------------------------------------------------------------------
(* telbot.py: main() and run_bot() *)

UnchangedRuntime ==
    /\ UNCHANGED <<watchlist, cyc, handler_pc, last, ncmds, nfail>>
    /\ OtherPrograms

\* main(): validate the configuration, then construct the bot and enter run_bot
MainValidate ==
    /\ main_pc = "main"
    /\ main_pc' = IF ConfigReplaced(token_cfg, channel_cfg) THEN "test_bot" ELSE "returned"
    /\ UNCHANGED <<token_cfg, channel_cfg, bot_test, chan_test, handlers, polling, sched_pc>>
    /\ UnchangedRuntime

\* run_bot: "if not await self.test_bot_connection(): return"
TestBotConnection ==
    /\ main_pc = "test_bot"
    /\ \E ok \in BotTestOutcomes(token_cfg) :
         /\ bot_test' = IF ok THEN "ok" ELSE "failed"
         /\ main_pc' = AfterBotTest(ok)
    /\ UNCHANGED <<token_cfg, channel_cfg, chan_test, handlers, polling, sched_pc>>
    /\ UnchangedRuntime

\* run_bot: "if not await self.test_channel_access(): return"; on success the
\* application is built and setup_handlers() registers the command handlers
\* before the next await (application.initialize())
TestChannelAccess ==
    /\ main_pc = "test_channel"
    /\ \E ok \in ChannelTestOutcomes(token_cfg, channel_cfg) :
         /\ chan_test' = IF ok THEN "ok" ELSE "failed"
         /\ main_pc' = AfterChannelTest(ok)
         /\ handlers' = (AfterChannelTest(ok) = "initialize")
    /\ UNCHANGED <<token_cfg, channel_cfg, bot_test, polling, sched_pc>>
    /\ UnchangedRuntime

\* shutdown_bot(): the updater and the application are stopped and
\* sys.exit(0) ends the process with its tasks and its memory
ProcessExits ==
    /\ main_pc' = "exited"
    /\ handlers' = FALSE
    /\ polling' = FALSE
    /\ sched_pc' = "none"
    /\ cyc' = [r \in Runners |-> IdleCycle]
    /\ handler_pc' = "idle"
    /\ watchlist' = <<>>
    /\ last' = [cmd |-> "none", failure |-> "none", reply |-> "none"]
    /\ ncmds' = 0
    /\ nfail' = 0

\* "await self.application.initialize()"; an exception goes to run_bot's
\* except branch: shutdown_bot()
Initialize ==
    /\ main_pc = "initialize"
    /\ \E ok \in BOOLEAN :
         IF ok
         THEN /\ main_pc' = "start"
              /\ UNCHANGED <<handlers, polling, sched_pc>>
              /\ UNCHANGED <<watchlist, cyc, handler_pc, last, ncmds, nfail>>
         ELSE ProcessExits
    /\ UNCHANGED <<token_cfg, channel_cfg, bot_test, chan_test>>
    /\ OtherPrograms

\* "await self.application.start()", then create_task(schedule_broadcasts()):
\* the task exists and will sleep 60 seconds
Start ==
    /\ main_pc = "start"
    /\ \E ok \in BOOLEAN :
         IF ok
         THEN /\ main_pc' = "start_polling"
              /\ sched_pc' = "initial_wait"
              /\ UNCHANGED <<handlers, polling>>
              /\ UNCHANGED <<watchlist, cyc, handler_pc, last, ncmds, nfail>>
         ELSE ProcessExits
    /\ UNCHANGED <<token_cfg, channel_cfg, bot_test, chan_test>>
    /\ OtherPrograms

\* "await self.application.updater.start_polling(...)"
StartPolling ==
    /\ main_pc = "start_polling"
    /\ \E ok \in BOOLEAN :
         IF ok
         THEN /\ main_pc' = "running"
              /\ polling' = TRUE
              /\ UNCHANGED <<handlers, sched_pc>>
              /\ UNCHANGED <<watchlist, cyc, handler_pc, last, ncmds, nfail>>
         ELSE ProcessExits
    /\ UNCHANGED <<token_cfg, channel_cfg, bot_test, chan_test>>
    /\ OtherPrograms

\* SIGINT/SIGTERM while in "while True: await asyncio.sleep(1)": shutdown_bot
\* stops the updater and the application and calls sys.exit(0)
Shutdown ==
    /\ main_pc = "running"
    /\ ProcessExits
    /\ UNCHANGED <<token_cfg, channel_cfg, bot_test, chan_test>>
    /\ OtherPrograms

-----------------------------------------------------------------------------
(* telbot.py: command handlers.  The application processes one update at a
   time: a handler runs to its end before the next update is taken.  *)

CanHandle ==
    /\ Alive
    /\ polling
    /\ handlers
    /\ handler_pc = "idle"
    /\ ncmds < MaxCommands

\* list.remove(x): the first occurrence leaves the list
RemoveFirst(wl, x) ==
    LET i == CHOOSE k \in 1..Len(wl) : wl[k] = x /\ \A j \in 1..(k - 1) : wl[j] # x
    IN  SubSeq(wl, 1, i - 1) \o SubSeq(wl, i + 1, Len(wl))

InList(x, wl) == \E k \in 1..Len(wl) : wl[k] = x

\* analyze_command
AnalyzeCommand ==
    /\ CanHandle
    /\ \E arg \in CmdArgs, fetched \in BOOLEAN, n \in SeriesLens, raises \in BOOLEAN :
         last' = IF arg = ""
                 THEN [cmd |-> "analyze", failure |-> "missing_arg", reply |-> "usage"]
                 ELSE IF AnalyzeCryptocurrency(fetched, n, raises) = "None"
                 THEN [cmd |-> "analyze", failure |-> "unfetchable", reply |-> "error"]
                 ELSE [cmd |-> "analyze", failure |-> "none", reply |-> "analysis"]
    /\ ncmds' = ncmds + 1
    /\ UnchangedStartup
    /\ UNCHANGED <<watchlist, sched_pc, cyc, handler_pc, nfail>>

\* watchlist_command, start_command (/start, /help): replies only
InfoCommand ==
    /\ CanHandle
    /\ \E c \in {"watchlist", "start"} :
         last' = [cmd |-> c, failure |-> "none", reply |-> c]
    /\ ncmds' = ncmds + 1
    /\ UnchangedStartup
    /\ UNCHANGED <<watchlist, sched_pc, cyc, handler_pc, nfail>>

\* (AddSymbol_NoCheck: the faulty variant that appends without the test)
AddSymbol_NoCheck(wl, s) == Append(wl, s)
\* lines 351-352: append the symbol when the list does not hold it
AddSymbol(wl, s) == IF ~InList(s, wl) THEN Append(wl, s) ELSE wl

\* lines 364-365: list.remove when the list holds the symbol
RemoveSymbol(wl, s) == IF InList(s, wl) THEN RemoveFirst(wl, s) ELSE wl

\* the body of add_to_watchlist_command for one argument text
AddToWatchlist(arg) ==
    IF arg = ""
    THEN /\ last' = [cmd |-> "add", failure |-> "missing_arg", reply |-> "usage"]
         /\ watchlist' = watchlist
    ELSE /\ watchlist' = AddSymbol(watchlist, Upper(arg))
         /\ last' = [cmd |-> "add", failure |-> "none",
                     reply |-> IF ~InList(Upper(arg), watchlist)
                               THEN "added" ELSE "already"]

\* the body of remove_from_watchlist_command for one argument text
RemoveFromWatchlist(arg) ==
    IF arg = ""
    THEN /\ last' = [cmd |-> "remove", failure |-> "missing_arg", reply |-> "usage"]
         /\ watchlist' = watchlist
    ELSE /\ watchlist' = RemoveSymbol(watchlist, Upper(arg))
         /\ last' = [cmd |-> "remove", failure |-> "none",
                     reply |-> IF InList(Upper(arg), watchlist)
                               THEN "removed" ELSE "absent"]

\* add_to_watchlist_command
AddToWatchlistCommand ==
    /\ CanHandle
    /\ \E arg \in CmdArgs : AddToWatchlist(arg)
    /\ ncmds' = ncmds + 1
    /\ UnchangedStartup
    /\ UNCHANGED <<sched_pc, cyc, handler_pc, nfail>>

\* remove_from_watchlist_command
RemoveFromWatchlistCommand ==
    /\ CanHandle
    /\ \E arg \in CmdArgs : RemoveFromWatchlist(arg)
    /\ ncmds' = ncmds + 1
    /\ UnchangedStartup
    /\ UNCHANGED <<sched_pc, cyc, handler_pc, nfail>>

\* broadcast_command, up to the first await inside analyze_and_broadcast:
\* "Starting manual broadcast..." is replied and the cycle is entered
BroadcastCommand ==
    /\ CanHandle
    /\ last' = [cmd |-> "broadcast", failure |-> "none", reply |-> "starting"]
    /\ cyc' = [cyc EXCEPT !["manual"] = StartCycle(watchlist)]
    /\ handler_pc' = "broadcasting"
    /\ ncmds' = ncmds + 1
    /\ UnchangedStartup
    /\ UNCHANGED <<watchlist, sched_pc, nfail>>

\* the reply broadcast_command sends after analyze_and_broadcast returned:
\* the same text whatever happened in the cycle
BroadcastReply(c) == "completed"

\* broadcast_command: analyze_and_broadcast has returned
BroadcastCommandDone ==
    /\ Alive
    /\ handler_pc = "broadcasting"
    /\ cyc["manual"].pc = "done"
    /\ last' = [cmd |-> "broadcast",
                failure |-> IF cyc["manual"].failed THEN "delivery_error" ELSE "none",
                reply |-> BroadcastReply(cyc["manual"])]
    /\ handler_pc' = "idle"
    /\ UnchangedStartup
    /\ UNCHANGED <<watchlist, sched_pc, cyc, ncmds, nfail>>

-----------------------------------------------------------------------------
(* Initial values of the variables of the other two programs *)

\* no frame fetched yet
NoFrame == [n |-> 0, es2 |-> 0, es1 |-> 0, el2 |-> 0, el1 |-> 0,
            m2 |-> 0, m1 |-> 0, s2 |-> 0, s1 |-> 0, rsi |-> 0]

JobIdle ==
    /\ job_pc = "idle"
    /\ job_idx = 0
    /\ job_fetched = <<>>
    /\ job_sent = <<>>
    /\ df = NoFrame
    /\ signal = "none"

NoIndicators == [sma_7 |-> 0, sma_14 |-> 0, sma_30 |-> <<>>, rsi |-> 0,
                 macd |-> 0, macd_signal |-> 0]

\* no price series fetched yet
NoPrices == [n |-> 0, sma_7 |-> 0, sma_14 |-> 0, sma_30 |-> 0, rsi |-> 0,
             macd_line |-> 0, analysed |-> FALSE]

SignalsIdle ==
    /\ ind = NoIndicators
    /\ volumes = <<>>
    /\ result = <<>>
    /\ prices = NoPrices

-----------------------------------------------------------------------------
(* The telbot.py process *)

BotInit ==
    /\ token_cfg \in TokenCfgs
    /\ channel_cfg \in ChannelCfgs
    /\ main_pc = "main"
    /\ bot_test = "unknown"
    /\ chan_test = "unknown"
    /\ handlers = FALSE
    /\ polling = FALSE
    /\ watchlist = InitialWatchlist
    /\ sched_pc = "none"
    /\ cyc = [r \in Runners |-> IdleCycle]
    /\ handler_pc = "idle"
    /\ last = [cmd |-> "none", failure |-> "none", reply |-> "none"]
    /\ ncmds = 0
    /\ nfail = 0

Init == BotInit /\ JobIdle /\ SignalsIdle

Next ==
    \/ MainValidate
    \/ TestBotConnection
    \/ TestChannelAccess
    \/ Initialize
    \/ Start
    \/ StartPolling
    \/ Shutdown
    \/ SchedInitialWaitDone
    \/ SchedWait4hDone
    \/ SchedWait30mDone
    \/ SchedCycleRaises
    \/ \E r \in Runners : AnalysisDone(r)
    \/ \E r \in Runners : SendDone(r)
    \/ \E r \in Runners : SleepDone(r)
    \/ AnalyzeCommand
    \/ InfoCommand
    \/ AddToWatchlistCommand
    \/ RemoveFromWatchlistCommand
    \/ BroadcastCommand
    \/ BroadcastCommandDone

Spec == Init /\ [][Next]_vars

-----------------------------------------------------------------------------
(* main.py: the hourly job and signal_generator.generate_signal *)

\* config.py
SYMBOLS == <<"BTC/USDT", "ETH/USDT">>
RSI_PERIOD == 14
RSI_OVERSOLD == 30
RSI_OVERBOUGHT == 70
EMA_LONG_PERIOD == 26
MACD_SLOW_PERIOD == 26

Max(a, b) == IF a >= b THEN a ELSE b

\* the series length the crossover strategy is specified to require
MinCrossoverSamples == Max(EMA_LONG_PERIOD, MACD_SLOW_PERIOD) + 1

\* lengths of the candle series fetch_ohlcv may return
FrameLens == {1, 2, MinCrossoverSamples - 1, MinCrossoverSamples}

EmaValues == {1, 2}
MacdValues == {0, 1}
RsiValues == {25, 30, 45, 50, 70, 75}

\* What indicators.ema / rsi / macd give for a series of n closes, at its last
\* two samples: es/el the short and long EMA, m/s the MACD and signal lines
\* (2 = previous sample, 1 = latest).  The EMA is seeded with the first close,
\* so the values at the first sample of a series coincide; the RSI is 50 when
\* fewer than RSI_PERIOD + 1 closes exist.  A series of one close has no
\* previous sample.
Frames ==
    {f \in [n : FrameLens, es2 : EmaValues, es1 : EmaValues, el2 : EmaValues,
            el1 : EmaValues, m2 : MacdValues, m1 : MacdValues, s2 : MacdValues,
            s1 : MacdValues, rsi : RsiValues] :
        /\ f.n < RSI_PERIOD + 1 => f.rsi = 50
        /\ f.n = 2 => f.es2 = f.el2 /\ f.m2 = f.s2
        /\ f.n = 1 => f.es2 = 1 /\ f.el2 = 1 /\ f.m2 = 0 /\ f.s2 = 0
                      /\ f.es1 = f.el1 /\ f.m1 = f.s1}

\* generate_signal, lines 12-13: EMA crossover
CrossUp(f) == f.es2 < f.el2 /\ f.es1 > f.el1
CrossDown(f) == f.es2 > f.el2 /\ f.es1 < f.el1

\* generate_signal, lines 20-21: MACD crossover
MacdCrossUp(f) == f.m2 < f.s2 /\ f.m1 > f.s1
MacdCrossDown(f) == f.m2 > f.s2 /\ f.m1 < f.s1

\* generate_signal: decision logic
\* (GenerateSignal_NoRsiGate: the faulty variant without the RSI gate of BUY)
GenerateSignal_NoRsiGate(f) ==
    IF f.n < 2 THEN "IndexError"
    ELSE IF CrossUp(f) /\ MacdCrossUp(f) THEN "BUY"
    ELSE IF CrossDown(f) /\ MacdCrossDown(f) /\ f.rsi > RSI_OVERSOLD THEN "SELL"
    ELSE "HOLD"
GenerateSignal(f) ==
    IF f.n < 2 THEN "IndexError"
    ELSE IF CrossUp(f) /\ MacdCrossUp(f) /\ f.rsi < RSI_OVERBOUGHT THEN "BUY"
    ELSE IF CrossDown(f) /\ MacdCrossDown(f) /\ f.rsi > RSI_OVERSOLD THEN "SELL"
    ELSE "HOLD"

JobUnchangedOthers == UNCHANGED <<botvars, sigvars>>

\* the scheduler fires job(): "for symbol in SYMBOLS" starts
JobStart ==
    /\ job_pc \in {"idle", "done", "aborted"}
    /\ job_pc' = "fetch"
    /\ job_idx' = 1
    /\ job_fetched' = <<>>
    /\ job_sent' = <<>>
    /\ df' = NoFrame
    /\ signal' = "none"
    /\ JobUnchangedOthers

\* df = fetch_ohlcv(symbol, TIMEFRAME, LIMIT); an exception leaves job()
JobFetch ==
    /\ job_pc = "fetch"
    /\ job_fetched' = Append(job_fetched, SYMBOLS[job_idx])
    /\ \E ok \in BOOLEAN :
         IF ok
         THEN /\ \E f \in Frames : df' = f
              /\ job_pc' = "generate"
         ELSE /\ df' = NoFrame
              /\ job_pc' = "aborted"
    /\ UNCHANGED <<job_idx, job_sent, signal>>
    /\ JobUnchangedOthers

\* signal, rsi_val = generate_signal(df); an exception leaves job()
JobGenerate ==
    /\ job_pc = "generate"
    /\ signal' = GenerateSignal(df)
    /\ job_pc' = IF GenerateSignal(df) = "IndexError" THEN "aborted" ELSE "send"
    /\ UNCHANGED <<job_idx, job_fetched, job_sent, df>>
    /\ JobUnchangedOthers

\* send_signal(symbol, signal, rsi_val) and the print; an exception of
\* bot.send_message leaves job(); otherwise the loop takes the next symbol.
\* df and signal are dead from here on (overwritten before the next read).
JobSend ==
    /\ job_pc = "send"
    /\ job_sent' = Append(job_sent, SYMBOLS[job_idx])
    /\ \E ok \in BOOLEAN :
         IF ~ok THEN /\ job_pc' = "aborted"
                     /\ job_idx' = job_idx
         ELSE IF job_idx < Len(SYMBOLS)
         THEN /\ job_pc' = "fetch"
              /\ job_idx' = job_idx + 1
         ELSE /\ job_pc' = "done"
              /\ job_idx' = job_idx
    /\ df' = NoFrame
    /\ signal' = "none"
    /\ UNCHANGED job_fetched
    /\ JobUnchangedOthers

\* the variables of telbot.py while only main.py runs
BotIdle ==
    /\ token_cfg = "valid"
    /\ channel_cfg = "ok"
    /\ main_pc = "main"
    /\ bot_test = "unknown"
    /\ chan_test = "unknown"
    /\ handlers = FALSE
    /\ polling = FALSE
    /\ watchlist = InitialWatchlist
    /\ sched_pc = "none"
    /\ cyc = [r \in Runners |-> IdleCycle]
    /\ handler_pc = "idle"
    /\ last = [cmd |-> "none", failure |-> "none", reply |-> "none"]
    /\ ncmds = 0
    /\ nfail = 0

InitJob == BotIdle /\ JobIdle /\ SignalsIdle

NextJob ==
    \/ JobStart
    \/ JobFetch
    \/ JobGenerate
    \/ JobSend

SpecJob == InitJob /\ [][NextJob]_vars

-----------------------------------------------------------------------------
(* telbot.py: TelegramCryptoBot.analyze_signals *)

\* thresholds written in analyze_signals
RsiOversold == 30
RsiOverbought == 70
RsiNeutralLow == 45
RsiNeutralHigh == 55
VolumeWindow == 7
StrongScore == 3
ConfidenceStep == 20
ConfidenceCap == 100

\* samples a volume series may hold beyond the two windows
ExtraVolumes == 1

SmaValues == {90, 100, 110}
\* sma_30 is None (here <<>>) for a series shorter than 30, else <<value>>
Sma30Values == {<<>>, <<90>>, <<100>>}
ScoredRsiValues == {25, 30, 45, 50, 55, 70, 75}
ScoredMacdValues == {2, 5}
VolumeValues == {2, 3, 4}
VolumeLens == {0, VolumeWindow - 1, VolumeWindow, 2 * VolumeWindow - 1,
               2 * VolumeWindow, 2 * VolumeWindow + ExtraVolumes}

IndicatorInputs ==
    [sma_7 : SmaValues, sma_14 : SmaValues, sma_30 : Sma30Values,
     rsi : ScoredRsiValues, macd : ScoredMacdValues, macd_signal : ScoredMacdValues]

\* a volume series of the given length: its last VolumeWindow samples are b,
\* the samples before them are a
VolumeSeries(len, a, b) == [i \in 1..len |-> IF i > len - VolumeWindow THEN b ELSE a]

VolumeInputs ==
    {VolumeSeries(len, a, b) : len \in VolumeLens, a \in VolumeValues, b \in VolumeValues}

\* truth value of "indicators['sma_30']": None and 0.0 are false
Truthy(opt) == opt # <<>> /\ opt[1] # 0

Abs(x) == IF x < 0 THEN -x ELSE x
Min(a, b) == IF a <= b THEN a ELSE b

RECURSIVE SumSeq(_)
SumSeq(q) == IF q = <<>> THEN 0 ELSE q[1] + SumSeq(Tail(q))

\* Python slices volumes[-7:] and volumes[-14:-7]
LastK(q, k) == SubSeq(q, Max(1, Len(q) - k + 1), Len(q))
PrecedingK(q, k) == SubSeq(q, Max(1, Len(q) - 2 * k + 1), Len(q) - k)

\* (VolumeSurge_Inclusive: the faulty variant that also fires at exactly 1.5)
VolumeSurge_Inclusive(vols) ==
    LET recent == LastK(vols, VolumeWindow)
        older  == IF Len(vols) >= 2 * VolumeWindow
                  THEN PrecedingK(vols, VolumeWindow) ELSE recent
    IN  2 * SumSeq(recent) * Len(older) >= 3 * SumSeq(older) * Len(recent)
\* lines 164-167: recent_vol > older_vol * 1.5, the means taken exactly
\* (sum / count, compared by cross-multiplication)
VolumeSurge(vols) ==
    LET recent == LastK(vols, VolumeWindow)
        older  == IF Len(vols) >= 2 * VolumeWindow
                  THEN PrecedingK(vols, VolumeWindow) ELSE recent
    IN  2 * SumSeq(recent) * Len(older) > 3 * SumSeq(older) * Len(recent)

\* each rule gives its score contribution and the reasons it appends

\* lines 129-134
SmaShortRule(i) ==
    IF i.sma_7 > i.sma_14
    THEN [score |-> 1, signals |-> <<"Short-term bullish (7>14 SMA)">>]
    ELSE [score |-> -1, signals |-> <<"Short-term bearish (7<14 SMA)">>]

\* lines 136-141
SmaMediumRule(i) ==
    IF Truthy(i.sma_30) /\ i.sma_14 > i.sma_30[1]
    THEN [score |-> 1, signals |-> <<"Medium-term bullish (14>30 SMA)">>]
    ELSE IF Truthy(i.sma_30)
    THEN [score |-> -1, signals |-> <<"Medium-term bearish (14<30 SMA)">>]
    ELSE [score |-> 0, signals |-> <<>>]

\* lines 144-152
\* (RsiRule_Weak: the faulty variant whose bands score 1 instead of 2)
RsiRule_Weak(i) ==
    IF i.rsi < RsiOversold
    THEN [score |-> 1, signals |-> <<"RSI Oversold - Potential Buy Zone">>]
    ELSE IF i.rsi > RsiOverbought
    THEN [score |-> -1, signals |-> <<"RSI Overbought - Potential Sell Zone">>]
    ELSE IF RsiNeutralLow <= i.rsi /\ i.rsi <= RsiNeutralHigh
    THEN [score |-> 0, signals |-> <<"RSI Neutral">>]
    ELSE [score |-> 0, signals |-> <<>>]
RsiRule(i) ==
    IF i.rsi < RsiOversold
    THEN [score |-> 2, signals |-> <<"RSI Oversold - Potential Buy Zone">>]
    ELSE IF i.rsi > RsiOverbought
    THEN [score |-> -2, signals |-> <<"RSI Overbought - Potential Sell Zone">>]
    ELSE IF RsiNeutralLow <= i.rsi /\ i.rsi <= RsiNeutralHigh
    THEN [score |-> 0, signals |-> <<"RSI Neutral">>]
    ELSE [score |-> 0, signals |-> <<>>]

\* lines 155-160
\* (MacdRule_Silent: the faulty variant whose bearish branch gives no reason)
MacdRule_Silent(i) ==
    IF i.macd > i.macd_signal
    THEN [score |-> 1, signals |-> <<"MACD Bullish Cross">>]
    ELSE [score |-> -1, signals |-> <<>>]
MacdRule(i) ==
    IF i.macd > i.macd_signal
    THEN [score |-> 1, signals |-> <<"MACD Bullish Cross">>]
    ELSE [score |-> -1, signals |-> <<"MACD Bearish Cross">>]

\* lines 163-169
VolumeRule(vols) ==
    IF Len(vols) >= VolumeWindow /\ VolumeSurge(vols)
    THEN [score |-> 1, signals |-> <<"High Volume Surge">>]
    ELSE [score |-> 0, signals |-> <<>>]

\* lines 172-186
\* (Classify_Strict: the faulty variant whose strong levels need more than 3)
Classify_Strict(score) ==
    IF score > StrongScore THEN "STRONG BUY"
    ELSE IF score >= 1 THEN "BUY"
    ELSE IF score < -StrongScore THEN "STRONG SELL"
    ELSE IF score <= -1 THEN "SELL"
    ELSE "HOLD"
Classify(score) ==
    IF score >= StrongScore THEN "STRONG BUY"
    ELSE IF score >= 1 THEN "BUY"
    ELSE IF score <= -StrongScore THEN "STRONG SELL"
    ELSE IF score <= -1 THEN "SELL"
    ELSE "HOLD"

\* line 193
Confidence(score) == Min(Abs(score) * ConfidenceStep, ConfidenceCap)

\* analyze_signals
AnalyzeSignals(i, vols) ==
    LET r1 == SmaShortRule(i)
        r2 == SmaMediumRule(i)
        r3 == RsiRule(i)
        r4 == MacdRule(i)
        r5 == VolumeRule(vols)
        score == r1.score + r2.score + r3.score + r4.score + r5.score
    IN  [signals |-> r1.signals \o r2.signals \o r3.signals \o r4.signals \o r5.signals,
         score |-> score,
         overall_signal |-> Classify(score),
         confidence |-> Confidence(score)]

\* analyze_signals is applied to the inputs
ApplyAnalyzeSignals ==
    /\ result = <<>>
    /\ result' = <<AnalyzeSignals(ind, volumes)>>
    /\ UNCHANGED <<ind, volumes, prices, botvars, jobvars>>

InitSignals ==
    /\ BotIdle
    /\ JobIdle
    /\ ind \in IndicatorInputs
    /\ volumes \in VolumeInputs
    /\ result = <<>>
    /\ prices = NoPrices

NextSignals == ApplyAnalyzeSignals

SpecSignals == InitSignals /\ [][NextSignals]_vars

-----------------------------------------------------------------------------
(* telbot.py: analyze_cryptocurrency, the scored pipeline
   calculate_technical_indicators -> analyze_signals.

   The numbers of the MACD computation are counted in units in the last
   place of the MACD line.  calculate_ema is computed exactly, as a fraction;
   the floating-point evaluation of its multiply-add steps returns a value
   within MaxDrift units of the exact one.  Which value it returns is fixed
   by the bits of the operands, which the model does not carry: it is a
   choice among the values in reach.                                       *)

\* units in the last place the floating-point EMA may lie from the exact one
MaxDrift == 1

\* line 103: the signal line is an EMA of period 9 over 9 values
SignalPeriod == 9
\* line 68: sma_30 needs 30 prices
Sma30Samples == 30

PipelineLens == {MinSamples - 1, MinSamples, Sma30Samples}
MacdLineValues == {-3, 0, 5}

\* what a fetched price series determines: its length, the two short SMAs,
\* the mean of its last 30 prices, its RSI and ema_12 - ema_26
PriceInputs ==
    [n : PipelineLens, sma_7 : SmaValues, sma_14 : SmaValues, sma_30 : {90, 100},
     rsi : ScoredRsiValues, macd_line : MacdLineValues, analysed : {FALSE}]

RECURSIVE Power(_, _)
Power(b, e) == IF e = 0 THEN 1 ELSE b * Power(b, e - 1)

\* calculate_ema, exactly: after k values the EMA is EmaNum / EmaDen, from
\* ema[k] = data[k] * 2/(period+1) + ema[k-1] * (1 - 2/(period+1))
EmaDen(period, k) == Power(period + 1, k - 1)

\* (EmaNum_Overweight: the faulty variant whose weights do not sum to 1)
RECURSIVE EmaNum_Overweight(_, _, _)
EmaNum_Overweight(data, period, k) ==
    IF k = 1 THEN data[1]
    ELSE 2 * data[k] * EmaDen(period, k - 1)
            + period * EmaNum_Overweight(data, period, k - 1)
RECURSIVE EmaNum(_, _, _)
EmaNum(data, period, k) ==
    IF k = 1 THEN data[1]
    ELSE 2 * data[k] * EmaDen(period, k - 1)
            + (period - 1) * EmaNum(data, period, k - 1)

CalculateEma(data, period) ==
    [num |-> EmaNum(data, period, Len(data)), den |-> EmaDen(period, Len(data))]

\* the values the floating-point evaluation of calculate_ema(data, period)
\* may return; on zeros every product and sum is exactly 0.0
FloatEma(data, period) ==
    LET q    == CalculateEma(data, period)
        vals == {data[k] : k \in 1..Len(data)}
        lo   == CHOOSE x \in vals : \A y \in vals : x <= y
        hi   == CHOOSE x \in vals : \A y \in vals : x >= y
    IN  IF vals = {0} THEN {0}
        ELSE {v \in (lo - MaxDrift)..(hi + MaxDrift) :
                 Abs(v * q.den - q.num) <= MaxDrift * q.den}

\* line 103: [macd_line] * 9
NineCopies(m) == [k \in 1..SignalPeriod |-> m]

\* lines 105-121: the indicators returned for a series of at least 20 prices
ScoredIndicators(p, sig) ==
    [sma_7 |-> p.sma_7, sma_14 |-> p.sma_14,
     sma_30 |-> IF p.n >= Sma30Samples THEN <<p.sma_30>> ELSE <<>>,
     rsi |-> p.rsi, macd |-> p.macd_line, macd_signal |-> sig]

\* analyze_cryptocurrency on fetched market data: no analysis for a short
\* series, else the indicators and the analysis of them
AnalyzeCryptocurrencyScored ==
    /\ ~prices.analysed
    /\ prices' = [prices EXCEPT !.analysed = TRUE]
    /\ IF CalculateTechnicalIndicators(prices.n) = "empty"
       THEN /\ ind' = NoIndicators
            /\ result' = <<>>
       ELSE \E sig \in FloatEma(NineCopies(prices.macd_line), SignalPeriod) :
               /\ ind' = ScoredIndicators(prices, sig)
               /\ result' = <<AnalyzeSignals(ScoredIndicators(prices, sig), volumes)>>
    /\ UNCHANGED <<volumes, botvars, jobvars>>

InitPipeline ==
    /\ BotIdle
    /\ JobIdle
    /\ ind = NoIndicators
    /\ volumes \in VolumeInputs
    /\ result = <<>>
    /\ prices \in PriceInputs

NextPipeline == AnalyzeCryptocurrencyScored

SpecPipeline == InitPipeline /\ [][NextPipeline]_vars

-----------------------------------------------------------------------------
(* The telbot.py process with the fairness its timers give: a pending
   asyncio.sleep of the scheduler task returns while the process lives.  *)

LiveSpec ==
    /\ Spec
    /\ WF_vars(SchedInitialWaitDone)
    /\ WF_vars(SchedWait4hDone)
    /\ WF_vars(SchedWait30mDone)

-----------------------------------------------------------------------------
(* Claims *)

IsPrefix(p, q) == Len(p) <= Len(q) /\ SubSeq(q, 1, Len(p)) = p

Occurrences(q, x) == Cardinality({k \in 1..Len(q) : q[k] = x})

SeqRange(q) == {q[k] : k \in 1..Len(q)}

\* C1 (as stated, for main.job): when a run of job() has ended, every symbol
\* of SYMBOLS was fetched in it, whatever failed for an earlier symbol.
C1_JobReachesEverySymbol ==
    job_pc \in {"done", "aborted"} => SeqRange(job_fetched) = SeqRange(SYMBOLS)

\* C2 (as stated): a cycle evaluates the symbols of the watchlist as it was at
\* cycle start, in that order, each once: what it has evaluated so far is a
\* prefix of that snapshot, and all of it once the cycle is done.
C2_CycleEvaluatesSnapshot ==
    \A r \in Runners :
        /\ IsPrefix(cyc[r].evaluated, cyc[r].snapshot)
        /\ cyc[r].pc = "done" => cyc[r].evaluated = cyc[r].snapshot

\* C3 (as stated): within one run of analyze_and_broadcast no symbol gets
\* more than one delivery attempt.
C3_AtMostOneAttemptPerSymbol ==
    \A r \in Runners : \A x \in SeqRange(cyc[r].attempts) :
        Occurrences(cyc[r].attempts, x) <= 1

\* C4: whenever a scheduled cycle has ended, by returning or by raising,
\* another scheduled cycle eventually starts, unless the process is shut down.
\* A cycle that returned is followed by the 4-hour wait, one that raised by
\* the 30-minute wait.
SchedCycleEnded == cyc["sched"].pc \in {"done", "raised"}
C4_NextCycleEventuallyStarts ==
    /\ [](SchedCycleEnded => <>(sched_pc = "running" \/ ~Alive))
    /\ [](cyc["sched"].pc = "done" => sched_pc = "wait4h")
    /\ [](cyc["sched"].pc = "raised" => sched_pc = "wait30m")

\* C4 witness: a scheduled cycle raised and the task is in its 30-minute wait
C4_Witness ==
    /\ cyc["sched"].pc = "raised"
    /\ sched_pc = "wait30m"
    /\ Alive

\* C5: handlers are registered, the scheduler task exists, polling runs or a
\* cycle has started only if the placeholders were replaced and both start-up
\* tests succeeded; once a test has failed run_bot has returned with none of
\* these in place.
StartupPassed ==
    /\ token_cfg # "placeholder"
    /\ channel_cfg # "placeholder"
    /\ bot_test = "ok"
    /\ chan_test = "ok"
C5_InvalidStartupHalts ==
    /\ (handlers \/ polling \/ sched_pc # "none"
          \/ \E r \in Runners : cyc[r].pc # "idle") => StartupPassed
    /\ (bot_test = "failed" \/ chan_test = "failed") =>
          /\ main_pc = "returned"
          /\ ~handlers /\ ~polling /\ sched_pc = "none"

\* C5 witness: the token passed, the channel test failed and run_bot returned
C5_Witness ==
    /\ bot_test = "ok"
    /\ chan_test = "failed"
    /\ main_pc = "returned"

\* C6 (as stated): a command invocation that met a failure has ended with a
\* usage or error reply.
C6_FailedCommandRepliesError ==
    (handler_pc = "idle" /\ last.failure # "none") => last.reply \in {"usage", "error"}

\* C7: the classification and the confidence are the stated functions of score.
C7_ClassificationOfScore ==
    result # <<>> =>
        LET sc  == result[1].score
            cls == result[1].overall_signal
            cf  == result[1].confidence
        IN  /\ (cls = "STRONG BUY") <=> (sc >= 3)
            /\ (cls = "BUY") <=> (1 <= sc /\ sc <= 2)
            /\ (cls = "HOLD") <=> (sc = 0)
            /\ (cls = "SELL") <=> (-2 <= sc /\ sc <= -1)
            /\ (cls = "STRONG SELL") <=> (sc <= -3)
            /\ cf = (IF Abs(sc) * 20 <= 100 THEN Abs(sc) * 20 ELSE 100)
            /\ cf \in {0, 20, 40, 60, 80, 100}
            /\ (cf = 0) <=> (cls = "HOLD")

\* C7 witness: a score of -3 classified STRONG SELL with confidence 60
C7_Witness ==
    /\ result # <<>>
    /\ result[1].score = -3
    /\ result[1].overall_signal = "STRONG SELL"
    /\ result[1].confidence = 60

\* C8: generate_signal's result is BUY exactly on an upward double crossing
\* with RSI < 70, SELL exactly on a downward double crossing with RSI > 30,
\* HOLD otherwise; the two conditions exclude each other.
BuyCase(f) ==
    /\ f.es2 < f.el2 /\ f.es1 > f.el1
    /\ f.m2 < f.s2 /\ f.m1 > f.s1
    /\ f.rsi < 70
SellCase(f) ==
    /\ f.es2 > f.el2 /\ f.es1 < f.el1
    /\ f.m2 > f.s2 /\ f.m1 < f.s1
    /\ f.rsi > 30
C10_ScoreIsSumOfRules ==
    result # <<>> =>
        LET sc == result[1].score
            c1 == IF ind.sma_7 > ind.sma_14 THEN 1 ELSE -1
            c2 == IF ind.sma_30 = <<>> THEN 0
                  ELSE IF ind.sma_14 > ind.sma_30[1] THEN 1 ELSE -1
            c3 == IF ind.rsi < 30 THEN 2 ELSE IF ind.rsi > 70 THEN -2 ELSE 0
            c4 == IF ind.macd > ind.macd_signal THEN 1 ELSE -1
            c5 == IF Len(result[1].signals) > 0
                     /\ result[1].signals[Len(result[1].signals)] = "High Volume Surge"
                  THEN 1 ELSE 0
        IN  /\ sc = c1 + c2 + c3 + c4 + c5
            /\ -5 <= sc /\ sc <= 6
            /\ (/\ ind = [sma_7 |-> 110, sma_14 |-> 100, sma_30 |-> <<90>>, rsi |-> 25,
                          macd |-> 5, macd_signal |-> 2]
                /\ volumes = VolumeSeries(14, 2, 4))
               => /\ Len(result[1].signals) >= 5
                  /\ sc >= 5
                  /\ result[1].overall_signal = "STRONG BUY"
                  /\ result[1].confidence = 100

\* C10 witness: the stated input has been analysed
C10_Witness ==
    /\ result # <<>>
    /\ ind = [sma_7 |-> 110, sma_14 |-> 100, sma_30 |-> <<90>>, rsi |-> 25,
              macd |-> 5, macd_signal |-> 2]
    /\ volumes = VolumeSeries(14, 2, 4)
    /\ result[1].score = 6

\* the reasons of the analysis, as a set
Reasons == {result[1].signals[k] : k \in 1..Len(result[1].signals)}

\* the score the four indicator rules give, the volume rule left out
IndicatorScore ==
    SmaShortRule(ind).score + SmaMediumRule(ind).score
        + RsiRule(ind).score + MacdRule(ind).score

\* the mean of the last 7 volumes against 1.5 times the mean of the 7 before
\* them, compared exactly: "above" is strictly more, "reaches" is at least
SurgeAbove ==
    /\ Len(volumes) >= 14
    /\ 2 * SumSeq(SubSeq(volumes, Len(volumes) - 6, Len(volumes)))
         > 3 * SumSeq(SubSeq(volumes, Len(volumes) - 13, Len(volumes) - 7))
SurgeReaches ==
    /\ Len(volumes) >= 14
    /\ 2 * SumSeq(SubSeq(volumes, Len(volumes) - 6, Len(volumes)))
         >= 3 * SumSeq(SubSeq(volumes, Len(volumes) - 13, Len(volumes) - 7))

\* C11 (as stated): the volume rule adds 1 and appends the volume-surge reason
\* exactly when the recent mean is at least 1.5 times the older mean, the
\* ratio of exactly 1.5 included.
C11_SurgeAtBoundaryIncluded ==
    result # <<>> =>
        /\ ("High Volume Surge" \in Reasons) <=> SurgeReaches
        /\ result[1].score = IndicatorScore + (IF SurgeReaches THEN 1 ELSE 0)

\* C11 (amended): the volume rule adds 1 and appends the volume-surge reason
\* exactly when the recent mean is strictly more than 1.5 times the older
\* mean; at a ratio of exactly 1.5, below it, and with fewer than 14 volume
\* samples it contributes nothing.
C11_SurgeStrictlyAbove ==
    result # <<>> =>
        /\ ("High Volume Surge" \in Reasons) <=> SurgeAbove
        /\ result[1].score = IndicatorScore + (IF SurgeAbove THEN 1 ELSE 0)
        /\ Len(volumes) < 14 => "High Volume Surge" \notin Reasons

\* C11 witness: a series whose recent mean 3 is exactly 1.5 times its older
\* mean 2 has been analysed and the rule contributed nothing
C11_Witness ==
    /\ result # <<>>
    /\ volumes = VolumeSeries(14, 2, 3)
    /\ SurgeReaches /\ ~SurgeAbove
    /\ "High Volume Surge" \notin Reasons
    /\ result[1].score = IndicatorScore

\* 1 when the condition holds, else 0
Count(b) == IF b THEN 1 ELSE 0

\* the rules analyze_signals evaluates for the inputs
EvaluatedRules ==
    1 + Count(Truthy(ind.sma_30)) + 1 + 1 + Count(Len(volumes) >= 7)

\* the RSI value lies in a band that has a reason: oversold, overbought
\* or neutral
RsiInBand == ind.rsi < 30 \/ ind.rsi > 70 \/ (45 <= ind.rsi /\ ind.rsi <= 55)

\* exactly one of the two reasons is reported
OneOf(a, b) == (a \in Reasons) # (b \in Reasons)

\* C12 (as stated): every evaluated rule appends exactly one reason, so the
\* number of reasons equals the number of evaluated rules.
C12_OneReasonPerEvaluatedRule ==
    result # <<>> => Len(result[1].signals) = EvaluatedRules

\* C12 (amended): the SMA7/SMA14 rule, the SMA14/SMA30 rule when sma_30 is
\* available and the MACD rule append exactly one reason each, whatever the
\* sign; the RSI rule appends one only in its three bands and the volume rule
\* only on a surge, so the reasons never outnumber the evaluated rules.
C12_ReasonsOfRules ==
    result # <<>> =>
        /\ OneOf("Short-term bullish (7>14 SMA)", "Short-term bearish (7<14 SMA)")
        /\ Truthy(ind.sma_30)
             => OneOf("Medium-term bullish (14>30 SMA)", "Medium-term bearish (14<30 SMA)")
        /\ OneOf("MACD Bullish Cross", "MACD Bearish Cross")
        /\ Len(result[1].signals)
             = 1 + Count(Truthy(ind.sma_30)) + Count(RsiInBand) + 1 + Count(SurgeAbove)
        /\ Cardinality(Reasons) = Len(result[1].signals)
        /\ Len(result[1].signals) <= EvaluatedRules

\* C12 witness: four rules were evaluated (no sma_30, RSI 30 between the
\* bands, seven flat volumes) and only two reasons were appended
C12_Witness ==
    /\ result # <<>>
    /\ ind.sma_30 = <<>> /\ ind.rsi = 30
    /\ volumes = VolumeSeries(7, 2, 2)
    /\ EvaluatedRules = 4
    /\ Len(result[1].signals) = 2

\* no symbol occurs twice in the watchlist
NoDuplicates == \A k, j \in 1..Len(watchlist) : watchlist[k] = watchlist[j] => k = j

\* what one /add or /remove command with a symbol argument does to the
\* membership of the watchlist
WatchlistCommandEffect ==
    \A arg \in CmdArgs \ {""} :
        LET s == Upper(arg)
            before == SeqRange(watchlist)
            after  == SeqRange(watchlist')
        IN  /\ (CanHandle /\ ncmds' = ncmds + 1 /\ AddToWatchlist(arg))
                 => /\ after = before \cup {s}
                    /\ s \in before => watchlist' = watchlist
            /\ (CanHandle /\ ncmds' = ncmds + 1 /\ RemoveFromWatchlist(arg))
                 => /\ s \notin after
                    /\ after = before \ {s}
                    /\ s \notin before => watchlist' = watchlist

\* C13: under every sequence of /add and /remove commands the watchlist never
\* holds a symbol twice; adding an absent symbol makes it a member and changes
\* no other membership; adding a present symbol and removing an absent one
\* leave the watchlist unchanged; after a remove the symbol is not a member.
C13_WatchlistIsASet ==
    /\ [](Alive => NoDuplicates)
    /\ [][WatchlistCommandEffect]_vars

\* C13 witness: BTC was removed and then added again, and stands once, at
\* the end of the other seven symbols
C13_Witness ==
    /\ last = [cmd |-> "add", failure |-> "none", reply |-> "added"]
    /\ ncmds = 2
    /\ watchlist = Append(Tail(InitialWatchlist), "BTC")

\* a series of at least 20 prices has gone through analyze_cryptocurrency
PipelineAnalysed == prices.analysed /\ prices.n >= 20 /\ result # <<>>

\* C14 (as stated): for every series of at least 20 prices macd_signal equals
\* macd, so the bullish MACD branch is never taken, the MACD rule always
\* subtracts 1 and the score is at most 4.
C14_MacdNeverBullish ==
    PipelineAnalysed =>
        /\ ind.macd_signal = ind.macd
        /\ "MACD Bullish Cross" \notin Reasons
        /\ "MACD Bearish Cross" \in Reasons
        /\ result[1].score <= 4

\* C14 (amended): the EMA of nine copies of the MACD line is that value in
\* exact arithmetic and the returned macd_signal lies within rounding error
\* of macd; the MACD rule adds 1 exactly when rounding left macd_signal below
\* macd and subtracts 1 otherwise; the score is at most 6, and at most 4
\* when macd_signal is not below macd.
C14_MacdDecidedByRounding ==
    /\ EmaNum(NineCopies(prices.macd_line), 9, 9) = prices.macd_line * EmaDen(9, 9)
    /\ PipelineAnalysed =>
        /\ ind.macd = prices.macd_line
        /\ Abs(ind.macd_signal - ind.macd) <= MaxDrift
        /\ ("MACD Bullish Cross" \in Reasons) <=> (ind.macd_signal < ind.macd)
        /\ ("MACD Bearish Cross" \in Reasons) <=> (ind.macd_signal >= ind.macd)
        /\ result[1].score <= 6
        /\ ind.macd_signal >= ind.macd => result[1].score <= 4

\* C14 witness: rounding left macd_signal below macd, the bullish MACD branch
\* was taken and the analysis scored 6
C14_Witness ==
    /\ PipelineAnalysed
    /\ ind.macd_signal < ind.macd
    /\ "MACD Bullish Cross" \in Reasons
    /\ result[1].score = 6

=============================================================================
